---- MODULE Spec2Model ----
(***************************************************************************)
(* Model of pylibCZIrw/build_ext.py: CMakeBuild.run, build_extension and   *)
(* check_and_install_packages.                                             *)
(*                                                                         *)
(* Strings are sequences of string tokens ("texts"); "+" and f-strings are *)
(* sequence concatenation.  Paths are texts whose tokens are the path      *)
(* components.  A dict is a function whose DOMAIN is its set of keys.      *)
(* Dict objects live in `heap` and are named by references, so that a      *)
(* write through a reference changes exactly the object it names.          *)
(***************************************************************************)
EXTENDS Integers, Sequences, FiniteSets, TLC

VARIABLES
    platform,       \* platform.system()
    debug,          \* self.debug
    extensions,     \* self.extensions, a list of CMakeExtension objects
    fs,             \* the set of paths that exist on disk (os.path.exists)
    heap,           \* dict objects by reference; "os.environ" is the process environment
    pc,             \* position of the (single) thread of control
    exc,            \* the exception that ended the build, if any
    out,            \* run: captured output of `cmake --version`
    extIdx,         \* run: position of the for loop over self.extensions
    built,          \* names of the extensions build_extension was called for, in call order
    env,            \* build_extension: the reference held by local `env`
    cfg,            \* build_extension: local cfg
    extdir,         \* build_extension: local extdir
    cmake_args,     \* build_extension: local cmake_args
    build_args,     \* build_extension: local build_args
    vcpkg_installation_root, \* build_extension: local vcpkg_installation_root
    packages,       \* check_and_install_packages: parameter packages
    triplet,        \* check_and_install_packages: parameter triplet
    vcpkg_root,     \* check_and_install_packages: parameter vcpkg_root
    pkgIdx,         \* check_and_install_packages: position of the for loop
    calls,          \* subprocesses started by the current build_extension call, in order
    versionCall     \* the `cmake --version` subprocess, once started

vars == <<platform, debug, extensions, fs, heap, pc, exc, out, extIdx, built,
          env, cfg, extdir, cmake_args, build_args, vcpkg_installation_root,
          packages, triplet, vcpkg_root, pkgIdx, calls, versionCall>>

-----------------------------------------------------------------------------
(* Bounds *)

MaxExts == 2

-----------------------------------------------------------------------------
(* Texts, paths and dicts *)

Contains(text, tok) == \E i \in 1..Len(text) : text[i] = tok

\* os.path.join(root, *parts)
PathJoin(root, parts) == root \o parts

\* os.path.dirname / Path(...).parent
Dirname(p) == IF Len(p) = 0 THEN p ELSE SubSeq(p, 1, Len(p) - 1)

\* d.get(k, default)
DictGet(d, k, default) == IF k \in DOMAIN d THEN d[k] ELSE default

\* dict(d, k=v)  and  d[k] = v
DictSet(d, k, v) == [x \in (DOMAIN d) \cup {k} |-> IF x = k THEN v ELSE d[x]]

\* os.path.exists(p)
PathExists(p) == p \in fs

\* str.upper() on the two values cfg takes
Upper(s) == IF s = "Debug" THEN "DEBUG" ELSE IF s = "Release" THEN "RELEASE" ELSE s

\* str.lower(), token by token
LowerTok(t) ==
    IF t = "MANYLINUX" THEN "manylinux"
    ELSE IF t = "_2_28_X86_64" THEN "_2_28_x86_64"
    ELSE t

Lower(text) == [i \in 1..Len(text) |-> LowerTok(text[i])]

-----------------------------------------------------------------------------
(* The host: interpreter, distribution, extension objects *)

SysExecutable == <<"/opt", "python", "bin", "python3">>

DistributionVersion == <<"5", ".", "0", ".", "0">>

BuildLib == <<"/work", "build", "lib">>

BuildTemp == <<"/work", "build", "temp">>

\* CMakeExtension(name, sourcedir): name is the dotted module path, one token per component
ExtensionAt(i) ==
    IF i = 1 THEN [name |-> <<"pylibCZIrw", "_pylibCZIrw">>, sourcedir |-> <<"/work">>]
    ELSE IF i = 2 THEN [name |-> <<"_czitools">>, sourcedir |-> <<"/work", "tools">>]
    ELSE [name |-> <<"pylibCZIrw", "_aux">>, sourcedir |-> <<"/work", "aux">>]

\* build_ext.get_ext_fullpath(name): build_lib / package dirs / file name
GetExtFullpath(name) == BuildLib \o name

\* ', '.join(e.name for e in self.extensions)
RECURSIVE JoinNames(_)
JoinNames(exts) ==
    IF Len(exts) = 0 THEN <<>>
    ELSE IF Len(exts) = 1 THEN exts[1].name
    ELSE exts[1].name \o <<", ">> \o JoinNames(Tail(exts))

-----------------------------------------------------------------------------
(* Environment values the build may be started with *)

PathValue == <<"/usr", "bin">>

EnvVcpkgRoot == <<"/opt", "vcpkg">>

DefaultVcpkgRootWindows == <<"C:", "vcpkg">>

DefaultVcpkgRootLinux == <<"/usr", "local", "share", "vcpkg">>

AuditwheelValues ==
    { <<"manylinux", "2014_x86_64">>, <<"MANYLINUX", "_2_28_X86_64">>, <<"linux_x86_64">> }

CxxflagsValue == <<"-O2">>

\* every os.environ the model starts from: each variable set or not
Environments ==
    { e \in UNION { [D -> {PathValue, EnvVcpkgRoot, CxxflagsValue} \cup AuditwheelValues] :
                      D \in SUBSET {"PATH", "VCPKG_INSTALLATION_ROOT", "AUDITWHEEL_PLAT", "CXXFLAGS"} } :
        /\ "PATH" \in DOMAIN e => e["PATH"] = PathValue
        /\ "VCPKG_INSTALLATION_ROOT" \in DOMAIN e => e["VCPKG_INSTALLATION_ROOT"] = EnvVcpkgRoot
        /\ "AUDITWHEEL_PLAT" \in DOMAIN e => e["AUDITWHEEL_PLAT"] \in AuditwheelValues
        /\ "CXXFLAGS" \in DOMAIN e => e["CXXFLAGS"] = CxxflagsValue }

Platforms == {"Windows", "Linux"}

DefaultVcpkgRoot(p) == IF p = "Windows" THEN DefaultVcpkgRootWindows ELSE DefaultVcpkgRootLinux

-----------------------------------------------------------------------------
(* Exceptions *)

NoExc == [type |-> "none", msg |-> <<>>, at |-> "none"]

Raise(type, msg, at) == [type |-> type, msg |-> msg, at |-> at]

-----------------------------------------------------------------------------
(* Subprocesses *)

\* A subprocess either cannot be started (OSError) or exits with a return code.
Outcomes == { [started |-> FALSE, returncode |-> 0],
              [started |-> TRUE, returncode |-> 0],
              [started |-> TRUE, returncode |-> 1] }

Exited == { o \in Outcomes : o.started }

\* subprocess.run(..., check=c) / check_call / check_output: what the call raises
RunRaises(o, check) ==
    IF ~o.started THEN "OSError"
    ELSE IF check /\ o.returncode # 0 THEN "CalledProcessError"
    ELSE "none"

Call(kind, argv, envRef, o, stdout) ==
    [kind |-> kind, argv |-> argv, envRef |-> envRef, envVal |-> heap[envRef],
     started |-> o.started, returncode |-> o.returncode, stdout |-> stdout]

NoCall == [kind |-> "none", argv |-> <<>>, envRef |-> "none", envVal |-> [x \in {} |-> <<>>],
           started |-> FALSE, returncode |-> 0, stdout |-> <<>>]

-----------------------------------------------------------------------------
(* run: `cmake --version`, the version it reports, the minimum version *)

NumberTokens == {"0", "1", "2", "3", "8", "12", "28"}

\* int() of a run of digits
NatOf(t) ==
    IF t = "0" THEN 0 ELSE IF t = "1" THEN 1 ELSE IF t = "2" THEN 2
    ELSE IF t = "3" THEN 3 ELSE IF t = "8" THEN 8 ELSE IF t = "12" THEN 12 ELSE 28

IsSpace(t) == t \in {" ", "\n"}

IsVersionChar(t) == t \in NumberTokens \cup {"."}

\* what `cmake --version` may print
CmakeOutputs ==
    { <<"cmake", " ", "version", " ", "3", ".", "28", ".", "1", "\n", "\n", "CMake suite maintained by Kitware">>,
      <<"cmake", " ", "version", " ", "2", ".", "8", ".", "12", "\n">>,
      <<"cmake", " ", "version", " ", "3", ".", "1", "\n">>,
      <<"cmake", " ", "version", " ", "3", ".", "1", ".", "\n">>,
      <<"cmake3", ":", " ", "unknown", " ", "option">> }

\* first position at or after i that is not whitespace (\s*)
RECURSIVE SkipSpace(_, _)
SkipSpace(text, i) ==
    IF i <= Len(text) /\ IsSpace(text[i]) THEN SkipSpace(text, i + 1) ELSE i

\* end of the longest run of [\d.] starting at i ([\d.]+ is greedy)
RECURSIVE RunEnd(_, _)
RunEnd(text, i) ==
    IF i + 1 <= Len(text) /\ IsVersionChar(text[i + 1]) THEN RunEnd(text, i + 1) ELSE i

\* positions where r"version\s*([\d.]+)" matches
MatchStarts(text) ==
    { i \in 1..Len(text) :
        /\ text[i] = "version"
        /\ SkipSpace(text, i + 1) <= Len(text)
        /\ IsVersionChar(text[SkipSpace(text, i + 1)]) }

\* re.search(...) is None
SearchFails(text) == MatchStarts(text) = {}

\* re.search(...).group(1): the group of the leftmost match
SearchGroup(text) ==
    LET i == CHOOSE m \in MatchStarts(text) : \A n \in MatchStarts(text) : m <= n
        j == SkipSpace(text, i + 1)
    IN  SubSeq(text, j, RunEnd(text, j))

\* packaging accepts N(.N)* here; anything else is InvalidVersion
ValidVersion(text) ==
    /\ Len(text) % 2 = 1
    /\ \A i \in 1..Len(text) :
          IF i % 2 = 1 THEN text[i] \in NumberTokens ELSE text[i] = "."

\* Version(text).release
Release(text) == [i \in 1..((Len(text) + 1) \div 2) |-> NatOf(text[2 * i - 1])]

\* packaging drops trailing zeros of the release before comparing
RECURSIVE StripTrailingZeros(_)
StripTrailingZeros(r) ==
    IF Len(r) > 0 /\ r[Len(r)] = 0 THEN StripTrailingZeros(SubSeq(r, 1, Len(r) - 1)) ELSE r

\* tuple comparison a < b
TupleLess(a, b) ==
    \E i \in 1..(Len(b)) :
        /\ \A k \in 1..(i - 1) : k <= Len(a) /\ a[k] = b[k]
        /\ i - 1 <= Len(a)
        /\ (i > Len(a) \/ a[i] < b[i])

VersionLess_inverted(a, b) == TupleLess(StripTrailingZeros(b), StripTrailingZeros(a))

\* Version(a) < Version(b), on releases
VersionLess(a, b) == TupleLess(StripTrailingZeros(a), StripTrailingZeros(b))

\* Version("3.1.0")
MinCmakeVersion == <<"3", ".", "1", ".", "0">>

MissingCmakeMessage_noPath(environ, exts) ==
    <<"CMake", " must be installed and available at PATH to build the following extensions: ">>
        \o JoinNames(exts)

\* the RuntimeError message of lines 32-35
MissingCmakeMessage(environ, exts) ==
    <<"CMake", " must be installed and available at PATH (">>
        \o DictGet(environ, "PATH", <<"None">>)
        \o <<") to build the following extensions: ">>
        \o JoinNames(exts)

\* line 37: the minimum version is enforced on Windows only
VersionCheckApplies(p) == p = "Windows"

-----------------------------------------------------------------------------
(* Initial states *)

ExtensionLists == { [i \in 1..n |-> ExtensionAt(i)] : n \in 0..MaxExts }

Init ==
    /\ platform \in Platforms
    /\ debug \in BOOLEAN
    /\ extensions \in ExtensionLists
    /\ \E e \in Environments : heap = [r \in {"os.environ"} |-> e]
    /\ fs \in SUBSET {DefaultVcpkgRoot(platform), EnvVcpkgRoot}
    /\ pc = "run"
    /\ exc = NoExc
    /\ out = <<>>
    /\ extIdx = 1
    /\ built = <<>>
    /\ env = "none"
    /\ cfg = ""
    /\ extdir = <<>>
    /\ cmake_args = <<>>
    /\ build_args = <<>>
    /\ vcpkg_installation_root = <<>>
    /\ packages = <<>>
    /\ triplet = ""
    /\ vcpkg_root = <<>>
    /\ pkgIdx = 1
    /\ calls = <<>>
    /\ versionCall = NoCall

runLocals == <<out, extIdx, built>>

beLocals == <<env, cfg, extdir, cmake_args, build_args, vcpkg_installation_root>>

cipLocals == <<packages, triplet, vcpkg_root, pkgIdx>>

host == <<platform, debug, extensions, fs>>

-----------------------------------------------------------------------------
(* CMakeBuild.run *)

\* lines 29-40: start `cmake --version`, read the version, enforce the minimum
RunCheckCmake ==
    /\ pc = "run"
    /\ \E o \in Outcomes, text \in CmakeOutputs :
        LET raises == RunRaises(o, TRUE)
            stdout == IF o.started /\ o.returncode = 0 THEN text ELSE <<>>
        IN
        /\ versionCall' = Call("cmake --version", <<<<"cmake">>, <<"--version">>>>, "os.environ", o, stdout)
        /\ IF raises = "OSError" THEN
               /\ exc' = Raise("RuntimeError", MissingCmakeMessage(heap["os.environ"], extensions), "run")
               /\ pc' = "raised"
               /\ out' = out
           ELSE IF raises = "CalledProcessError" THEN
               /\ exc' = Raise("CalledProcessError", <<"cmake --version">>, "run")
               /\ pc' = "raised"
               /\ out' = out
           ELSE IF SearchFails(text) THEN
               /\ exc' = Raise("AttributeError", <<"'NoneType' object has no attribute 'group'">>, "run")
               /\ pc' = "raised"
               /\ out' = text
           ELSE IF ~ValidVersion(SearchGroup(text)) THEN
               /\ exc' = Raise("InvalidVersion", SearchGroup(text), "run")
               /\ pc' = "raised"
               /\ out' = text
           ELSE IF /\ VersionCheckApplies(platform)
                   /\ VersionLess(Release(SearchGroup(text)), Release(MinCmakeVersion)) THEN
               /\ exc' = Raise("RuntimeError", <<"CMake >= ", "3.1.0", " is required on Windows">>, "run")
               /\ pc' = "raised"
               /\ out' = text
           ELSE
               /\ exc' = exc
               /\ pc' = "loop"
               /\ out' = text
    /\ UNCHANGED <<host, heap, extIdx, built, beLocals, cipLocals, calls>>

\* lines 42-43: the for loop calls build_extension for the next extension, or run returns
RunLoop ==
    /\ pc = "loop"
    /\ IF extIdx <= Len(extensions) THEN
           /\ built' = Append(built, extensions[extIdx].name)
           /\ calls' = <<>>
           /\ pc' = "build_extension"
       ELSE
           /\ pc' = "done"
           /\ UNCHANGED <<built, calls>>
    /\ UNCHANGED <<host, heap, exc, out, extIdx, beLocals, cipLocals, versionCall>>

-----------------------------------------------------------------------------
(* CMakeBuild.build_extension: flag assembly *)

NewDictRef_alias(src) == src

\* dict(os.environ.copy(), ...) is a new dict object, distinct from its source
NewDictRef(src) == "env"

\* lines 52-64: the flags every platform gets
BaseCmakeArgs(dir) ==
    << <<"-DCMAKE_LIBRARY_OUTPUT_DIRECTORY=">> \o dir,
       <<"-DPYTHON_EXECUTABLE=">> \o SysExecutable,
       <<"-DLIBCZI_BUILD_DYNLIB=", "OFF">>,
       <<"-DLIBCZI_BUILD_UNITTESTS=", "OFF">>,
       <<"-DLIBCZI_BUILD_CURL_BASED_STREAM=", "ON">>,
       <<"-DPYLIBCZIRW_VERSION=">> \o DistributionVersion >>

\* lines 67-68
WindowsCmakeArgs(c, dir) ==
    << <<"-DCMAKE_LIBRARY_OUTPUT_DIRECTORY_", Upper(c), "=">> \o dir,
       <<"-DVCPKG_TARGET_TRIPLET=", "x64-windows-static">> >>

\* lines 83-90 and 142-149
ToolchainFlag(root) ==
    <<"-DCMAKE_TOOLCHAIN_FILE=">> \o PathJoin(root, <<"scripts", "buildsystems", "vcpkg.cmake">>)

\* lines 76-90: appended on Windows after check_and_install_packages returned
WindowsVcpkgArgs(root) ==
    << <<"-DLIBCZI_BUILD_PREFER_EXTERNALPACKAGE_LIBCURL=", "ON">>,
       <<"-DLIBCZI_BUILD_PREFER_EXTERNALPACKAGE_EIGEN3=", "ON">>,
       ToolchainFlag(root) >>

\* lines 123-127
StaticOpensslArgs ==
    << <<"-DOPENSSL_USE_STATIC_LIBS=", "TRUE">>,
       <<"-DOPENSSL_ROOT_DIR=", "/tmp/openssl">>,
       <<"-DZLIB_USE_STATIC_LIBS=", "TRUE">> >>

LinuxVcpkgArgs_noToolchain(root) ==
    << <<"-DLIBCZI_BUILD_PREFER_EXTERNALPACKAGE_LIBCURL=", "ON">> >>

\* lines 141-152: appended on Linux after check_and_install_packages returned
LinuxVcpkgArgs(root) ==
    << ToolchainFlag(root),
       <<"-DLIBCZI_BUILD_PREFER_EXTERNALPACKAGE_LIBCURL=", "ON">> >>

\* lines 155-157
LinuxNoVcpkgArgs ==
    << <<"-DLIBCZI_BUILD_PREFER_EXTERNALPACKAGE_LIBCURL=", "OFF">> >>

\* line 159
BuildTypeArgs(c) == << <<"-DCMAKE_BUILD_TYPE=", c>> >>

IsManylinux_caseSensitive(environ) == Contains(DictGet(environ, "AUDITWHEEL_PLAT", <<>>), "manylinux")

\* line 98: "manylinux" in os.environ.get("AUDITWHEEL_PLAT", "").lower()
IsManylinux(environ) == Contains(Lower(DictGet(environ, "AUDITWHEEL_PLAT", <<>>)), "manylinux")

\* lines 69 and 131: os.environ.get("VCPKG_INSTALLATION_ROOT", default)
VcpkgInstallationRoot(environ, p) == DictGet(environ, "VCPKG_INSTALLATION_ROOT", DefaultVcpkgRoot(p))

\* lines 162-164
CxxflagsWithVersionInfo(e) ==
    DictGet(e, "CXXFLAGS", <<>>) \o <<" -DVERSION_INFO=", "\\\"">> \o DistributionVersion \o <<"\\\"">>

\* lines 48-64: the environment copy, the output directory, the common flags
BuildExtensionSetup ==
    /\ pc = "build_extension"
    /\ IF "PATH" \notin DOMAIN heap["os.environ"] THEN
           /\ exc' = Raise("KeyError", <<"PATH">>, "build_extension")
           /\ pc' = "raised"
           /\ UNCHANGED <<heap, beLocals>>
       ELSE
           LET path_var == Dirname(SysExecutable) \o <<":">> \o heap["os.environ"]["PATH"]
               ref == NewDictRef("os.environ")
               dir == Dirname(GetExtFullpath(extensions[extIdx].name))
               c == IF debug THEN "Debug" ELSE "Release"
           IN
           /\ env' = ref
           /\ heap' = [r \in (DOMAIN heap) \cup {ref} |->
                          IF r = ref THEN DictSet(heap["os.environ"], "PATH", path_var) ELSE heap[r]]
           /\ extdir' = dir
           /\ cfg' = c
           /\ cmake_args' = BaseCmakeArgs(dir)
           /\ build_args' = << <<"--config">>, <<c>> >>
           /\ pc' = "platform"
           /\ UNCHANGED <<exc, vcpkg_installation_root>>
    /\ UNCHANGED <<host, runLocals, cipLocals, calls, versionCall>>

\* lines 66-75 and 91-92: the Windows branch up to the call of check_and_install_packages
WindowsBranch ==
    /\ pc = "platform"
    /\ platform = "Windows"
    /\ LET root == VcpkgInstallationRoot(heap["os.environ"], platform) IN
       /\ cmake_args' = cmake_args \o WindowsCmakeArgs(cfg, extdir)
       /\ vcpkg_installation_root' = root
       /\ IF PathExists(root) THEN
              /\ packages' = <<"curl[ssl]", "eigen3">>
              /\ triplet' = "x64-windows-static"
              /\ vcpkg_root' = root
              /\ pkgIdx' = 1
              /\ pc' = "check_and_install_packages"
              /\ exc' = exc
          ELSE
              /\ exc' = Raise("RuntimeError",
                              <<"vcpkg installation not found, please define your VCPKG_INSTALLATION_ROOT path">>,
                              "build_extension")
              /\ pc' = "raised"
              /\ UNCHANGED cipLocals
    /\ UNCHANGED <<host, heap, runLocals, env, cfg, extdir, build_args, calls, versionCall>>

\* lines 95-98: the other platforms decide whether to build zlib and openssl
LinuxBranch ==
    /\ pc = "platform"
    /\ platform # "Windows"
    /\ pc' = IF IsManylinux(heap["os.environ"]) THEN "zlib" ELSE "vcpkg"
    /\ UNCHANGED <<host, heap, exc, runLocals, beLocals, cipLocals, calls, versionCall>>

-----------------------------------------------------------------------------
(* The static zlib and openssl builds (manylinux only) *)

ZlibCommand ==
    <<"cd /tmp && ", "git clone --branch v1.3 https://github.com/madler/zlib.git && ", "cd zlib && ",
      "CFLAGS=-fPIC ./configure --static && ", "make -j2 && ", "make install">>

OpensslCommand ==
    <<"cd /tmp && ", "git clone --branch openssl-3.2.0 https://github.com/openssl/openssl.git && ",
      "cd openssl && ", "mkdir build && ",
      "./config no-shared -static zlib -fPIC -L/usr/lib no-docs no-tests && ", "make -j2">>

ZlibCheck_strict == TRUE

\* line 111: check=False
ZlibCheck == FALSE

\* line 121: check=False
OpensslCheck == FALSE

\* lines 103-112: the shell runs the zlib build; its exit status is not looked at
BuildZlib ==
    /\ pc = "zlib"
    /\ \E o \in Exited :
        /\ calls' = Append(calls, Call("zlib", <<ZlibCommand>>, "os.environ", o, <<>>))
        /\ IF RunRaises(o, ZlibCheck) # "none" THEN
               /\ exc' = Raise(RunRaises(o, ZlibCheck), <<"zlib">>, "build_extension")
               /\ pc' = "raised"
           ELSE
               /\ exc' = exc
               /\ pc' = "openssl"
    /\ UNCHANGED <<host, heap, runLocals, beLocals, cipLocals, versionCall>>

\* lines 113-127: the shell runs the openssl build, then the static-library flags are added
BuildOpenssl ==
    /\ pc = "openssl"
    /\ \E o \in Exited :
        /\ calls' = Append(calls, Call("openssl", <<OpensslCommand>>, "os.environ", o, <<>>))
        /\ IF RunRaises(o, OpensslCheck) # "none" THEN
               /\ exc' = Raise(RunRaises(o, OpensslCheck), <<"openssl">>, "build_extension")
               /\ pc' = "raised"
               /\ UNCHANGED cmake_args
           ELSE
               /\ exc' = exc
               /\ cmake_args' = cmake_args \o StaticOpensslArgs
               /\ pc' = "vcpkg"
    /\ UNCHANGED <<host, heap, runLocals, env, cfg, extdir, build_args, vcpkg_installation_root,
                   cipLocals, versionCall>>

\* lines 130-140 and 153-160: the package manager is used if its root exists
LinuxVcpkg ==
    /\ pc = "vcpkg"
    /\ LET root == VcpkgInstallationRoot(heap["os.environ"], platform) IN
       /\ vcpkg_installation_root' = root
       /\ IF PathExists(root) THEN
              /\ packages' = <<"curl[ssl]">>
              /\ triplet' = "x64-linux"
              /\ vcpkg_root' = root
              /\ pkgIdx' = 1
              /\ pc' = "check_and_install_packages"
              /\ UNCHANGED <<cmake_args, build_args>>
          ELSE
              /\ cmake_args' = cmake_args \o LinuxNoVcpkgArgs \o BuildTypeArgs(cfg)
              /\ build_args' = build_args \o << <<"--">>, <<"-j2">> >>
              /\ pc' = "cxxflags"
              /\ UNCHANGED cipLocals
    /\ UNCHANGED <<host, heap, exc, runLocals, env, cfg, extdir, calls, versionCall>>

-----------------------------------------------------------------------------
(* check_and_install_packages *)

\* what `vcpkg list <package>` may print: the names of the installed packages it found
Listings == { <<>>, <<"curl[ssl]">>, <<"eigen3">> }

VcpkgArgv(verb, package, trip, root) ==
    << PathJoin(root, <<"vcpkg">>), <<verb>>, <<package>>,
       <<"--triplet=", trip>>, <<"--vcpkg-root=">> \o root >>

PackageListed_inverted(package, stdout) == ~Contains(stdout, package)

\* line 197: package in result.stdout
PackageListed(package, stdout) == Contains(stdout, package)

\* line 195: check=False
VcpkgListCheck == FALSE

VcpkgInstallCheck_strict == TRUE

\* line 209: check=False
VcpkgInstallCheck == FALSE

\* lines 183-200: `vcpkg list` for the next package, and the decision to install
VcpkgList ==
    /\ pc = "check_and_install_packages"
    /\ pkgIdx <= Len(packages)
    /\ \E o \in Outcomes, text \in Listings :
        LET package == packages[pkgIdx]
            stdout == IF o.started THEN text ELSE <<>>
        IN
        /\ calls' = Append(calls, Call("vcpkg list", VcpkgArgv("list", package, triplet, vcpkg_root),
                                       "os.environ", o, stdout))
        /\ IF RunRaises(o, VcpkgListCheck) # "none" THEN
               /\ exc' = Raise(RunRaises(o, VcpkgListCheck), <<"vcpkg list">>, "check_and_install_packages")
               /\ pc' = "raised"
               /\ pkgIdx' = pkgIdx
           ELSE IF PackageListed(package, stdout) THEN
               /\ pkgIdx' = pkgIdx + 1
               /\ UNCHANGED <<pc, exc>>
           ELSE
               /\ pc' = "vcpkg_install"
               /\ UNCHANGED <<pkgIdx, exc>>
    /\ UNCHANGED <<host, heap, runLocals, beLocals, packages, triplet, vcpkg_root, versionCall>>

\* lines 201-210: `vcpkg install` for the package that was not listed
VcpkgInstall ==
    /\ pc = "vcpkg_install"
    /\ \E o \in Outcomes :
        /\ calls' = Append(calls, Call("vcpkg install",
                                       VcpkgArgv("install", packages[pkgIdx], triplet, vcpkg_root),
                                       "os.environ", o, <<>>))
        /\ IF RunRaises(o, VcpkgInstallCheck) # "none" THEN
               /\ exc' = Raise(RunRaises(o, VcpkgInstallCheck), <<"vcpkg install">>,
                               "check_and_install_packages")
               /\ pc' = "raised"
               /\ pkgIdx' = pkgIdx
           ELSE
               /\ pkgIdx' = pkgIdx + 1
               /\ pc' = "check_and_install_packages"
               /\ exc' = exc
    /\ UNCHANGED <<host, heap, runLocals, beLocals, packages, triplet, vcpkg_root, versionCall>>

\* line 211 and the caller's lines 76-94 (Windows) or 141-152, 159-160 (others)
VcpkgReturn ==
    /\ pc = "check_and_install_packages"
    /\ pkgIdx > Len(packages)
    /\ IF platform = "Windows" THEN
           /\ cmake_args' = cmake_args \o WindowsVcpkgArgs(vcpkg_installation_root)
           /\ build_args' = build_args \o << <<"--">>, <<"/m">> >>
       ELSE
           /\ cmake_args' = cmake_args \o LinuxVcpkgArgs(vcpkg_installation_root) \o BuildTypeArgs(cfg)
           /\ build_args' = build_args \o << <<"--">>, <<"-j2">> >>
    /\ packages' = <<>>
    /\ triplet' = ""
    /\ vcpkg_root' = <<>>
    /\ pkgIdx' = 1
    /\ pc' = "cxxflags"
    /\ UNCHANGED <<host, heap, exc, runLocals, env, cfg, extdir, vcpkg_installation_root, calls, versionCall>>

-----------------------------------------------------------------------------
(* CMakeBuild.build_extension: the generator and the builder *)

GeneratorCheck_off == FALSE

\* line 170: check_call raises CalledProcessError on a nonzero exit
GeneratorCheck == TRUE

\* line 173: check_call
BuilderCheck == TRUE

\* lines 162-166: CXXFLAGS in the copy, and the build directory
SetCxxflags ==
    /\ pc = "cxxflags"
    /\ heap' = [heap EXCEPT ![env] = DictSet(heap[env], "CXXFLAGS", CxxflagsWithVersionInfo(heap[env]))]
    /\ fs' = IF PathExists(BuildTemp) THEN fs ELSE fs \cup {BuildTemp}
    /\ pc' = "generate"
    /\ UNCHANGED <<platform, debug, extensions, exc, runLocals, beLocals, cipLocals, calls, versionCall>>

\* line 170: the cmake generator
CmakeGenerate ==
    /\ pc = "generate"
    /\ \E o \in Outcomes :
        /\ calls' = Append(calls, Call("cmake generate",
                                       << <<"cmake">>, extensions[extIdx].sourcedir >> \o cmake_args,
                                       env, o, <<>>))
        /\ IF RunRaises(o, GeneratorCheck) # "none" THEN
               /\ exc' = Raise(RunRaises(o, GeneratorCheck), <<"cmake">>, "build_extension")
               /\ pc' = "raised"
           ELSE
               /\ exc' = exc
               /\ pc' = "build"
    /\ UNCHANGED <<host, heap, runLocals, beLocals, cipLocals, versionCall>>

\* lines 173-177: `cmake --build`; on success build_extension returns to the loop of run
CmakeBuildTarget ==
    /\ pc = "build"
    /\ \E o \in Outcomes :
        /\ calls' = Append(calls, Call("cmake build",
                                       << <<"cmake">>, <<"--build">>, <<".">>, <<"--target">>, <<"_pylibCZIrw">> >>
                                           \o build_args,
                                       env, o, <<>>))
        /\ IF RunRaises(o, BuilderCheck) # "none" THEN
               /\ exc' = Raise(RunRaises(o, BuilderCheck), <<"cmake --build">>, "build_extension")
               /\ pc' = "raised"
               /\ UNCHANGED <<heap, extIdx, beLocals>>
           ELSE
               /\ exc' = exc
               /\ pc' = "loop"
               /\ extIdx' = extIdx + 1
               /\ heap' = [r \in {"os.environ"} |-> heap[r]]
               /\ env' = "none"
               /\ cfg' = ""
               /\ extdir' = <<>>
               /\ cmake_args' = <<>>
               /\ build_args' = <<>>
               /\ vcpkg_installation_root' = <<>>
    /\ UNCHANGED <<host, out, built, cipLocals, versionCall>>

-----------------------------------------------------------------------------

Next ==
    \/ RunCheckCmake
    \/ RunLoop
    \/ BuildExtensionSetup
    \/ WindowsBranch
    \/ LinuxBranch
    \/ BuildZlib
    \/ BuildOpenssl
    \/ LinuxVcpkg
    \/ VcpkgList
    \/ VcpkgInstall
    \/ VcpkgReturn
    \/ SetCxxflags
    \/ CmakeGenerate
    \/ CmakeBuildTarget

Spec == Init /\ [][Next]_vars

-----------------------------------------------------------------------------
(* Vocabulary of the properties *)

Environ == heap["os.environ"]

\* text `part` occurs in `text`
Occurs(part, text) ==
    \E i \in 1..(Len(text) - Len(part) + 1) : SubSeq(text, i, i + Len(part) - 1) = part

IndicesOf(kinds) == { i \in 1..Len(calls) : calls[i].kind \in kinds }

VcpkgKinds == {"vcpkg list", "vcpkg install"}

ExitedNonzero(c) == c.started /\ c.returncode # 0

\* the flags a generator call was given: its argv after "cmake" and the source directory
FlagsOf(c) == SubSeq(c.argv, 3, Len(c.argv))

\* the arguments a builder call was given after the fixed `cmake --build . --target _pylibCZIrw`
BuildArgsOf(c) == SubSeq(c.argv, 6, Len(c.argv))

HasFlag(c, flag) == \E i \in 1..Len(FlagsOf(c)) : FlagsOf(c)[i] = flag

\* the root directory build_extension looks for on this host
HostVcpkgRoot ==
    IF "VCPKG_INSTALLATION_ROOT" \in DOMAIN Environ THEN Environ["VCPKG_INSTALLATION_ROOT"]
    ELSE IF platform = "Windows" THEN <<"C:", "vcpkg">>
    ELSE <<"/usr", "local", "share", "vcpkg">>

RaisedIn(places) == pc = "raised" /\ exc.at \in places

-----------------------------------------------------------------------------
(* C1 *)

\* C1: whenever a subprocess of the build has exited with a nonzero status, the
\* build has aborted with a raised error and that subprocess is the last one started.
C1_NonzeroExitAborts ==
    /\ ExitedNonzero(versionCall) => (pc = "raised" /\ calls = <<>> /\ built = <<>>)
    /\ \A i \in 1..Len(calls) :
          ExitedNonzero(calls[i]) => (i = Len(calls) /\ pc = "raised")

-----------------------------------------------------------------------------
(* C2 *)

CmakeNotStartable == versionCall.kind = "cmake --version" /\ ~versionCall.started

\* C2: if `cmake --version` cannot be started, run has raised a RuntimeError whose
\* message names CMake, the value of PATH and every extension, and neither
\* build_extension nor any further subprocess has been started.
C2_MissingCmakeReported ==
    CmakeNotStartable =>
        /\ pc = "raised"
        /\ exc.type = "RuntimeError"
        /\ exc.at = "run"
        /\ Contains(exc.msg, "CMake")
        /\ ("PATH" \in DOMAIN Environ => Occurs(Environ["PATH"], exc.msg))
        /\ \A i \in 1..Len(extensions) : Occurs(extensions[i].name, exc.msg)
        /\ built = <<>>
        /\ calls = <<>>

C2_Witness ==
    /\ CmakeNotStartable
    /\ pc = "raised"
    /\ "PATH" \in DOMAIN Environ
    /\ Len(extensions) >= 2

-----------------------------------------------------------------------------
(* C3 *)

\* `cmake --version` ran and printed a well-formed version
VersionReported ==
    /\ versionCall.started
    /\ versionCall.returncode = 0
    /\ out # <<>>
    /\ ~SearchFails(out)
    /\ ValidVersion(SearchGroup(out))

Component(r, i) == IF i <= Len(r) THEN r[i] ELSE 0

\* the reported version, as major.minor.patch, is below 3.1.0
ReportedOlderThanMinimum ==
    LET r == Release(SearchGroup(out))
        n == Component(r, 1) * 1000000 + Component(r, 2) * 1000 + Component(r, 3)
    IN  n < 3001000

ExtensionNames == [i \in 1..Len(extensions) |-> extensions[i].name]

RunEnded == pc \in {"done", "raised"}

\* C3 as stated: on every platform a reported version below 3.1.0 makes run raise
\* an error naming the requirement with no build_extension call, and any other
\* version makes run call build_extension once for each extension in list order.
C3_Original ==
    VersionReported =>
        IF ReportedOlderThanMinimum
        THEN /\ pc = "raised"
             /\ Contains(exc.msg, "3.1.0")
             /\ built = <<>>
        ELSE RunEnded => built = ExtensionNames

\* C3 amended: on Windows a reported version below 3.1.0 makes run raise a
\* RuntimeError naming the requirement with no build_extension call; in every
\* other case with a reported version run raises nothing itself and calls
\* build_extension for the extensions in list order, for all of them when it
\* returns and for a prefix of them when a build_extension call raises.
C3_VersionCheckOnWindows ==
    VersionReported =>
        IF platform = "Windows" /\ ReportedOlderThanMinimum
        THEN /\ pc = "raised"
             /\ exc.type = "RuntimeError"
             /\ exc.at = "run"
             /\ Contains(exc.msg, "3.1.0")
             /\ built = <<>>
             /\ calls = <<>>
        ELSE /\ ~RaisedIn({"run"})
             /\ Len(built) <= Len(extensions)
             /\ built = SubSeq(ExtensionNames, 1, Len(built))
             /\ (pc = "done" => built = ExtensionNames)

C3_Witness ==
    /\ VersionReported
    /\ platform = "Windows"
    /\ ReportedOlderThanMinimum
    /\ pc = "raised"
    /\ Len(extensions) >= 1

-----------------------------------------------------------------------------
(* C4 *)

IsVcpkgCall(c) == c.kind \in VcpkgKinds

IsListCall(c) == c.kind = "vcpkg list"

\* the package-manager calls of the current build_extension, in order
VcpkgCalls == SelectSeq(calls, IsVcpkgCall)

ListCalls == SelectSeq(calls, IsListCall)

\* the package a package-manager call names
PackageOf(c) == c.argv[3][1]

InCheckAndInstall ==
    \/ pc \in {"check_and_install_packages", "vcpkg_install"}
    \/ RaisedIn({"check_and_install_packages"})

\* C4: the packages are listed in list order, once each; `vcpkg install` runs for
\* a package exactly when the listing printed for that package does not contain its
\* name, directly after that listing, and never when it does; every call carries
\* the caller's triplet and root.
C4_ListThenInstallIfAbsent ==
    LET vc == VcpkgCalls
        ls == ListCalls
    IN
    \* an install directly follows the listing of the same package, which lacks the name
    /\ \A i \in 1..Len(vc) :
          vc[i].kind = "vcpkg install" =>
              /\ i > 1
              /\ vc[i - 1].kind = "vcpkg list"
              /\ PackageOf(vc[i - 1]) = PackageOf(vc[i])
              /\ ~Contains(vc[i - 1].stdout, PackageOf(vc[i]))
    \* a listing that lacks the name is followed by the install before anything else
    /\ \A i \in 1..Len(vc) :
          (vc[i].kind = "vcpkg list" /\ vc[i].started /\ ~Contains(vc[i].stdout, PackageOf(vc[i]))) =>
              IF i < Len(vc) THEN vc[i + 1].kind = "vcpkg install"
              ELSE pc = "vcpkg_install"
    /\ (pc = "vcpkg_install" => Len(vc) > 0 /\ vc[Len(vc)].kind = "vcpkg list")
    \* while the function runs: list order, once each, caller's triplet and root
    /\ InCheckAndInstall =>
          /\ Len(ls) <= Len(packages)
          /\ \A j \in 1..Len(ls) : PackageOf(ls[j]) = packages[j]
          /\ Len(ls) = (IF pc = "check_and_install_packages" THEN pkgIdx - 1 ELSE pkgIdx)
          /\ vcpkg_root = HostVcpkgRoot
          /\ triplet = (IF platform = "Windows" THEN "x64-windows-static" ELSE "x64-linux")
          /\ \A i \in 1..Len(vc) :
                /\ vc[i].argv[1] = vcpkg_root \o <<"vcpkg">>
                /\ vc[i].argv[2] = << (IF vc[i].kind = "vcpkg list" THEN "list" ELSE "install") >>
                /\ vc[i].argv[4] = <<"--triplet=", triplet>>
                /\ vc[i].argv[5] = <<"--vcpkg-root=">> \o vcpkg_root

\* both packages visited, one found in its listing and one installed
C4_Witness ==
    /\ pc = "check_and_install_packages"
    /\ pkgIdx > Len(packages)
    /\ Len(packages) = 2
    /\ Len(VcpkgCalls) = 3
    /\ \E i \in 1..Len(VcpkgCalls) : VcpkgCalls[i].kind = "vcpkg install"

-----------------------------------------------------------------------------
(* C5 *)

GeneratorCalls == IndicesOf({"cmake generate"})

\* C5: no exit status of `vcpkg list` or `vcpkg install` raises: the function is
\* left early only when a call cannot be started at all; at its return every
\* package has been listed; and once it was entered, build_extension raises
\* nothing before the generator, which gets the package-manager flags whatever
\* the exit statuses were.
C5_InstallFailuresTolerated ==
    /\ RaisedIn({"check_and_install_packages"}) =>
          /\ exc.type = "OSError"
          /\ ~calls[Len(calls)].started
    /\ (pc = "check_and_install_packages" /\ pkgIdx > Len(packages)) =>
          /\ Len(ListCalls) = Len(packages)
          /\ \A j \in 1..Len(packages) : PackageOf(ListCalls[j]) = packages[j]
    /\ (RaisedIn({"build_extension"}) /\ VcpkgCalls # <<>>) => GeneratorCalls # {}
    /\ \A g \in GeneratorCalls :
          VcpkgCalls # <<>> =>
              /\ HasFlag(calls[g], <<"-DLIBCZI_BUILD_PREFER_EXTERNALPACKAGE_LIBCURL=", "ON">>)
              /\ HasFlag(calls[g], <<"-DCMAKE_TOOLCHAIN_FILE=">> \o HostVcpkgRoot
                                       \o <<"scripts", "buildsystems", "vcpkg.cmake">>)

\* the generator was invoked after a listing and an install that both exited nonzero
C5_Witness ==
    /\ GeneratorCalls # {}
    /\ \E i \in IndicesOf({"vcpkg list"}) : ExitedNonzero(calls[i])
    /\ \E i \in IndicesOf({"vcpkg install"}) : ExitedNonzero(calls[i])

-----------------------------------------------------------------------------
(* C6 *)

BuilderCalls == IndicesOf({"cmake build"})

\* the directory the extension named `name` is written to
OutputDirOf(name) == <<"/work", "build", "lib">> \o SubSeq(name, 1, Len(name) - 1)

\* the flag list as a function of platform, environment, debug flag, whether the
\* package-manager root exists, and the output directory
ExpectedFlags(p, environ, dbg, rootExists, dir) ==
    LET c == IF dbg THEN "Debug" ELSE "Release"
        upper == IF dbg THEN "DEBUG" ELSE "RELEASE"
        root == IF "VCPKG_INSTALLATION_ROOT" \in DOMAIN environ THEN environ["VCPKG_INSTALLATION_ROOT"]
                ELSE IF p = "Windows" THEN <<"C:", "vcpkg">>
                ELSE <<"/usr", "local", "share", "vcpkg">>
        toolchain == <<"-DCMAKE_TOOLCHAIN_FILE=">> \o root \o <<"scripts", "buildsystems", "vcpkg.cmake">>
        manylinux == /\ "AUDITWHEEL_PLAT" \in DOMAIN environ
                     /\ environ["AUDITWHEEL_PLAT"] \in
                            { <<"manylinux", "2014_x86_64">>, <<"MANYLINUX", "_2_28_X86_64">> }
        base == << <<"-DCMAKE_LIBRARY_OUTPUT_DIRECTORY=">> \o dir,
                   <<"-DPYTHON_EXECUTABLE=", "/opt", "python", "bin", "python3">>,
                   <<"-DLIBCZI_BUILD_DYNLIB=", "OFF">>,
                   <<"-DLIBCZI_BUILD_UNITTESTS=", "OFF">>,
                   <<"-DLIBCZI_BUILD_CURL_BASED_STREAM=", "ON">>,
                   <<"-DPYLIBCZIRW_VERSION=", "5", ".", "0", ".", "0">> >>
    IN
    IF p = "Windows" THEN
        base \o << <<"-DCMAKE_LIBRARY_OUTPUT_DIRECTORY_", upper, "=">> \o dir,
                   <<"-DVCPKG_TARGET_TRIPLET=", "x64-windows-static">>,
                   <<"-DLIBCZI_BUILD_PREFER_EXTERNALPACKAGE_LIBCURL=", "ON">>,
                   <<"-DLIBCZI_BUILD_PREFER_EXTERNALPACKAGE_EIGEN3=", "ON">>,
                   toolchain >>
    ELSE
        base
        \o (IF manylinux THEN << <<"-DOPENSSL_USE_STATIC_LIBS=", "TRUE">>,
                                 <<"-DOPENSSL_ROOT_DIR=", "/tmp/openssl">>,
                                 <<"-DZLIB_USE_STATIC_LIBS=", "TRUE">> >>
            ELSE <<>>)
        \o (IF rootExists THEN << toolchain, <<"-DLIBCZI_BUILD_PREFER_EXTERNALPACKAGE_LIBCURL=", "ON">> >>
            ELSE << <<"-DLIBCZI_BUILD_PREFER_EXTERNALPACKAGE_LIBCURL=", "OFF">> >>)
        \o << <<"-DCMAKE_BUILD_TYPE=", c>> >>

\* with these inputs build_extension gets as far as the generator
GeneratorReachable(p, rootExists) == p # "Windows" \/ rootExists

ExpectedBuildArgs(p, dbg) ==
    << <<"--config">>, << (IF dbg THEN "Debug" ELSE "Release") >>, <<"--">>,
       << (IF p = "Windows" THEN "/m" ELSE "-j2") >> >>

\* C6 as stated: the flags the generator is given are those of every other
\* execution with the same platform, environment and debug flag, whether or not
\* the package-manager root exists there and whichever extension it builds.
C6_Original ==
    /\ \A g \in GeneratorCalls :
          \A rootExists \in BOOLEAN, k \in 1..Len(extensions) :
              GeneratorReachable(platform, rootExists) =>
                  FlagsOf(calls[g]) =
                      ExpectedFlags(platform, Environ, debug, rootExists, OutputDirOf(extensions[k].name))
    /\ \A b \in BuilderCalls : BuildArgsOf(calls[b]) = ExpectedBuildArgs(platform, debug)

\* C6 amended: the flags the generator is given are a function of platform,
\* environment, debug flag, the existence of the package-manager root on disk
\* and the output directory of the extension being built (the Python executable
\* and the package version being fixed); the build arguments are a function of
\* platform and debug flag.
C6_FlagsDetermined ==
    /\ \A g \in GeneratorCalls :
          FlagsOf(calls[g]) =
              ExpectedFlags(platform, Environ, debug, HostVcpkgRoot \in fs, OutputDirOf(built[Len(built)]))
    /\ \A b \in BuilderCalls : BuildArgsOf(calls[b]) = ExpectedBuildArgs(platform, debug)

\* the second extension was generated and built in a manylinux container
C6_Witness ==
    /\ GeneratorCalls # {}
    /\ BuilderCalls # {}
    /\ Len(built) >= 2
    /\ platform = "Linux"
    /\ "AUDITWHEEL_PLAT" \in DOMAIN Environ
    /\ Environ["AUDITWHEEL_PLAT"] = <<"MANYLINUX", "_2_28_X86_64">>

-----------------------------------------------------------------------------
(* C7 *)

BeforeGenerator == RaisedIn({"build_extension", "check_and_install_packages"}) /\ GeneratorCalls = {}

AllStarted == \A i \in 1..Len(calls) : calls[i].started

\* C7 as stated: with PATH set and every subprocess startable, build_extension
\* never raises before the generator is invoked, on any platform and for any
\* setting of VCPKG_INSTALLATION_ROOT and AUDITWHEEL_PLAT and any debug flag.
C7_Original ==
    ("PATH" \in DOMAIN Environ /\ AllStarted) => ~BeforeGenerator

\* C7 amended: build_extension raises before the generator only (a) on Windows
\* when the package-manager root does not exist, with a RuntimeError, (b) when
\* PATH is unset, with a KeyError, or (c) when the package manager cannot be
\* started, with an OSError; and on Windows without the root it never gets to
\* the generator.
C7_AssemblyErrors ==
    /\ BeforeGenerator =>
          \/ /\ platform = "Windows"
             /\ HostVcpkgRoot \notin fs
             /\ exc.type = "RuntimeError"
             /\ "PATH" \in DOMAIN Environ
          \/ /\ "PATH" \notin DOMAIN Environ
             /\ exc.type = "KeyError"
             /\ calls = <<>>
          \/ /\ exc.type = "OSError"
             /\ calls # <<>>
             /\ calls[Len(calls)].kind \in VcpkgKinds
             /\ ~calls[Len(calls)].started
    /\ (platform = "Windows" /\ HostVcpkgRoot \notin fs) =>
          /\ GeneratorCalls = {}
          /\ pc \notin {"check_and_install_packages", "vcpkg_install", "cxxflags", "generate", "build"}

C7_Witness ==
    /\ BeforeGenerator
    /\ platform = "Windows"
    /\ exc.type = "RuntimeError"
    /\ "VCPKG_INSTALLATION_ROOT" \in DOMAIN Environ
    /\ "AUDITWHEEL_PLAT" \notin DOMAIN Environ

-----------------------------------------------------------------------------
(* C8 *)

Rank(kind) ==
    IF kind = "zlib" THEN 1
    ELSE IF kind = "openssl" THEN 2
    ELSE IF kind \in VcpkgKinds THEN 3
    ELSE IF kind = "cmake generate" THEN 4
    ELSE 5

\* C8: within one build_extension call the subprocesses start in the order
\* zlib, openssl, package-manager calls, generator, builder; each of zlib,
\* openssl, generator and builder at most once; the builder only after the
\* generator exited with status zero; the generator only after
\* check_and_install_packages listed all its packages and returned.
C8_StepOrder ==
    /\ \A i, j \in 1..Len(calls) :
          i < j => /\ Rank(calls[i].kind) <= Rank(calls[j].kind)
                   /\ (Rank(calls[i].kind) = Rank(calls[j].kind) => calls[i].kind \in VcpkgKinds)
    /\ \A b \in BuilderCalls :
          \E g \in GeneratorCalls : g < b /\ calls[g].started /\ calls[g].returncode = 0
    /\ \A g \in GeneratorCalls :
          /\ ~InCheckAndInstall
          /\ IF HostVcpkgRoot \in fs
             THEN Len(ListCalls) = (IF platform = "Windows" THEN 2 ELSE 1)
             ELSE VcpkgCalls = <<>>
    /\ (BuilderCalls # {} \/ pc = "build") => GeneratorCalls # {}

\* a build that ran every kind of step
C8_Witness ==
    /\ BuilderCalls # {}
    /\ IndicesOf({"zlib"}) # {}
    /\ IndicesOf({"openssl"}) # {}
    /\ IndicesOf({"vcpkg install"}) # {}

-----------------------------------------------------------------------------
(* C9 *)

\* the environment the generator and the builder must be given
AugmentedEnviron ==
    [k \in (DOMAIN Environ) \cup {"PATH", "CXXFLAGS"} |->
        IF k = "PATH" THEN <<"/opt", "python", "bin", ":">> \o Environ["PATH"]
        ELSE IF k = "CXXFLAGS" THEN
            (IF "CXXFLAGS" \in DOMAIN Environ THEN Environ["CXXFLAGS"] ELSE <<>>)
                \o <<" -DVERSION_INFO=", "\\\"", "5", ".", "0", ".", "0", "\\\"">>
        ELSE Environ[k]]

ChildEnvironIsAugmentedCopy ==
    \A i \in GeneratorCalls \cup BuilderCalls :
        /\ calls[i].envRef # "os.environ"
        /\ calls[i].envRef = env
        /\ calls[i].envVal = AugmentedEnviron

\* C9: no step changes os.environ, and the generator and the builder are both
\* given the same dict, which is not os.environ and holds os.environ with PATH
\* prefixed by the interpreter's directory and CXXFLAGS extended by VERSION_INFO.
C9_EnvironUntouched ==
    /\ [][heap'["os.environ"] = heap["os.environ"]]_vars
    /\ [](pc # "loop" /\ pc # "done" => ChildEnvironIsAugmentedCopy)
    /\ [](\A i \in GeneratorCalls, j \in BuilderCalls :
              calls[i].envRef = calls[j].envRef /\ calls[i].envVal = calls[j].envVal)

C9_Witness ==
    /\ BuilderCalls # {}
    /\ calls[Len(calls)].returncode = 0
    /\ calls[Len(calls)].started
    /\ "CXXFLAGS" \in DOMAIN Environ
    /\ Len(built) >= 2

-----------------------------------------------------------------------------
(* C10 *)

FlagsWithKey(c, key) == { i \in 1..Len(FlagsOf(c)) : FlagsOf(c)[i][1] = key }

LibcurlOn(c) == HasFlag(c, <<"-DLIBCZI_BUILD_PREFER_EXTERNALPACKAGE_LIBCURL=", "ON">>)

\* C10: a generator call has exactly one LIBCURL setting, ON or OFF; it has a
\* toolchain flag, naming vcpkg.cmake under the package-manager root, exactly
\* when the setting is ON; the setting is ON exactly when the root exists and
\* the packages were listed before the generator; on Windows it is always ON.
C10_LibcurlAndToolchain ==
    \A g \in GeneratorCalls :
        LET c == calls[g]
            curl == FlagsWithKey(c, "-DLIBCZI_BUILD_PREFER_EXTERNALPACKAGE_LIBCURL=")
            tool == FlagsWithKey(c, "-DCMAKE_TOOLCHAIN_FILE=")
        IN
        /\ Cardinality(curl) = 1
        /\ \A i \in curl : FlagsOf(c)[i] \in
              { <<"-DLIBCZI_BUILD_PREFER_EXTERNALPACKAGE_LIBCURL=", "ON">>,
                <<"-DLIBCZI_BUILD_PREFER_EXTERNALPACKAGE_LIBCURL=", "OFF">> }
        /\ (tool # {}) <=> LibcurlOn(c)
        /\ \A i \in tool :
              FlagsOf(c)[i] = <<"-DCMAKE_TOOLCHAIN_FILE=">> \o HostVcpkgRoot
                                  \o <<"scripts", "buildsystems", "vcpkg.cmake">>
        /\ LibcurlOn(c) <=>
              (HostVcpkgRoot \in fs /\ \E l \in IndicesOf({"vcpkg list"}) : l < g)
        /\ (platform = "Windows" => LibcurlOn(c))

C10_Witness ==
    /\ GeneratorCalls # {}
    /\ platform = "Linux"
    /\ \E g \in GeneratorCalls : LibcurlOn(calls[g])

====
